---- MODULE Spec2Model ----
(***************************************************************************)
(* Model of main_denoising (src/main_denoising.py): the chunked            *)
(* enhancement loop over a batch of WAV files, the per-chunk scratch       *)
(* directory, the predictor worker process and the output written.         *)
(*                                                                         *)
(* A waveform is represented by its sample count, its samples being        *)
(* identified by their index; a list of arrays (data_se) is a sequence of  *)
(* segments [kind, bi, len]; a matrix is its shape plus the class of its   *)
(* values.  truncate_minutes is a rational num/den.                        *)
(***************************************************************************)
EXTENDS Integers, Sequences, FiniteSets, TLC

\* ---------------------------------------------------------------- bounds
MaxFiles == 2
MaxChunks == 3

\* ------------------------------------------------------ program constants
SR == 16000
WL == 512
WL2 == WL \div 2
NFREQS == 257

\* ------------------------------------------------------------ input sets
Rates == {8000, SR}
Sizes == {0, 255, 513, 2880000, 24000000}
Files == [rate : Rates, size : Sizes]
TruncateMinutes ==
    { [num |-> 10, den |-> 1],
      [num |-> 513, den |-> 1920000],
      [num |-> 300, den |-> 960000],
      [num |-> 1, den |-> 1920000] }

\* ------------------------------------------------------- pure operators
\* chunk_length = int(truncate_minutes * rate * 60)
ChunkLength(tm, rate) == (tm.num * rate * 60) \div tm.den

\* total_chunks = int(math.ceil(wav_data.size / chunk_length))
\* faulty variant: integer division instead of the ceiling
TotalChunksFloor(size, cl) == size \div cl

TotalChunks(size, cl) == (size + cl - 1) \div cl

\* bi = (i-1)*chunk_length
\* faulty variant: the chunk index taken as zero-based
ChunkBeginOffByOne(idx, cl) == idx * cl

ChunkBegin(idx, cl) == (idx - 1) * cl

\* ei = bi + chunk_length
ChunkEnd(bi, cl) == bi + cl

Min(a, b) == IF a <= b THEN a ELSE b

\* temp = wav_data[bi:ei]: a slice is clipped to the array
Slice(size, bi, ei) ==
    [bi |-> Min(bi, size), len |-> Min(ei, size) - Min(bi, size)]

\* if temp.shape[0] < WL2
\* faulty variant: <= in place of <
IsTooShortInclusive(len) == len <= WL2

IsTooShort(len) == len < WL2

\* utils.peak_normalization: a new waveform of the same sample count
PeakNormalization(size) == [size |-> size, normalized |-> TRUE]

\* utils.wav2logspec: ceil((N - W) / hop) + 1 frames of NFREQS bins
CeilDiv(a, b) == -((-a) \div b)

Wav2LogSpec(len) == [rows |-> CeilDiv(len - WL, WL2) + 1, cols |-> NFREQS,
                     val |-> "finite"]

\* numpy broadcasting of one dimension; 0 - 1 stands for "incompatible"
BroadcastDim(a, b) ==
    IF a = b THEN a ELSE IF a = 1 THEN b ELSE IF b = 1 THEN a ELSE 0 - 1

\* np.log of a matrix whose smallest value is of class v
NpLog(v) == CASE v = "pos" -> "finite" [] v = "zero" -> "neginf"
              [] OTHER -> "nan"

\* value class of finite + x
AddFinite(v) == v

Broadcastable(a, b) ==
    /\ BroadcastDim(a.rows, b.rows) >= 0
    /\ BroadcastDim(a.cols, b.cols) >= 0

\* masked_lps = noisy_htkdata + np.log(irm)
MaskedLps(lps, m) ==
    [rows |-> BroadcastDim(lps.rows, m.rows),
     cols |-> BroadcastDim(lps.cols, m.cols),
     val |-> AddFinite(NpLog(m.val))]

RECURSIVE SumLen(_)
SumLen(segs) ==
    IF segs = <<>> THEN 0 ELSE segs[1].len + SumLen(Tail(segs))

\* np.concatenate(data_se): every segment placed after the previous ones
Concatenate(segs) ==
    [j \in 1..Len(segs) |->
        [kind |-> segs[j].kind, src |-> segs[j].bi, len |-> segs[j].len,
         out |-> SumLen(SubSeq(segs, 1, j - 1))]]

\* ------------------------------------------------------------------ state
VARIABLES
    wav_files,        \* the batch: sequence of [rate, size]
    truncate_minutes, \* [num, den]
    pc,               \* position of main_denoising
    wav,              \* index in wav_files of the current file
    reported,         \* files reported as skipped
    out_files,        \* output directory: file index -> what was written
    wav_data,         \* normalized waveform of the current file
    chunk_length,
    total_chunks,
    data_se,          \* list of per-chunk arrays
    i,                \* chunk index
    fs,               \* existing scratch directories -> their content
    tmp_dir,          \* scratch directory of the current iteration
    temp,             \* samples of this chunk
    noisy_htkdata,    \* LPS features of this chunk
    irm,              \* mask read back
    masked_lps,
    procs,            \* predictor workers alive: set of [id, dir]
    p,                \* id of the worker of this iteration
    pending,          \* how the try block was left
    failure,          \* [kind, file] of the exception that ended the batch
    trace,            \* steps of the current iteration, in order
    dirLog,           \* <<file, chunk>> of every mkdtemp
    workerLog         \* <<file, chunk>> of every Process started

vars == <<wav_files, truncate_minutes, pc, wav, reported, out_files, wav_data,
          chunk_length, total_chunks, data_se, i, fs, tmp_dir, temp,
          noisy_htkdata, irm, masked_lps, procs, p, pending, failure, trace,
          dirLog, workerLog>>

NoOutput == [written |-> FALSE, data |-> <<>>]
NoMatrix == [rows |-> 0, cols |-> 0, val |-> "none"]
NoTemp == [bi |-> 0, len |-> 0]
NoFailure == [kind |-> "none", file |-> 0]
EmptyDir == [htk |-> FALSE, scp |-> FALSE, irm |-> NoMatrix]

inputs == <<wav_files, truncate_minutes>>
fileVars == <<wav_data, chunk_length, total_chunks>>
chunkVars == <<temp, noisy_htkdata, irm, masked_lps>>
logs == <<dirLog, workerLog>>

\* the inputs whose chunk count stays within MaxChunks
Admissible(tm, files) ==
    \A k \in DOMAIN files :
        (files[k].rate = SR /\ ChunkLength(tm, SR) > 0)
            => files[k].size <= MaxChunks * ChunkLength(tm, SR)

Init ==
    /\ \E tm \in TruncateMinutes, n \in 1..MaxFiles :
         \E files \in [1..n -> Files] :
            /\ Admissible(tm, files)
            /\ wav_files = files
            /\ truncate_minutes = tm
    /\ pc = "for_wav"
    /\ wav = 1
    /\ reported = {}
    /\ out_files = [k \in DOMAIN wav_files |-> NoOutput]
    /\ wav_data = PeakNormalization(0)
    /\ chunk_length = 0
    /\ total_chunks = 0
    /\ data_se = <<>>
    /\ i = 1
    /\ fs = <<>>
    /\ tmp_dir = 0
    /\ temp = NoTemp
    /\ noisy_htkdata = NoMatrix
    /\ irm = NoMatrix
    /\ masked_lps = NoMatrix
    /\ procs = {}
    /\ p = 0
    /\ pending = "none"
    /\ failure = NoFailure
    /\ trace = <<>>
    /\ dirLog = <<>>
    /\ workerLog = <<>>

\* --------------------------------------------------------------- the loop
\* lines 72-76: wrong sample rate: report and continue with the next file
\* faulty variant: return in place of continue
SkipFileReturn ==
    /\ pc = "for_wav" /\ wav <= Len(wav_files)
    /\ wav_files[wav].rate # SR
    /\ reported' = reported \cup {wav}
    /\ wav' = Len(wav_files) + 1
    /\ UNCHANGED <<inputs, pc, out_files, fileVars, data_se, i, fs, tmp_dir,
                   chunkVars, procs, p, pending, failure, trace, logs>>

SkipFile ==
    /\ pc = "for_wav" /\ wav <= Len(wav_files)
    /\ wav_files[wav].rate # SR
    /\ reported' = reported \cup {wav}
    /\ wav' = wav + 1
    /\ UNCHANGED <<inputs, pc, out_files, fileVars, data_se, i, fs, tmp_dir,
                   chunkVars, procs, p, pending, failure, trace, logs>>

\* lines 72-85: normalize, compute the chunking
BeginFile ==
    /\ pc = "for_wav" /\ wav <= Len(wav_files)
    /\ wav_files[wav].rate = SR
    /\ ChunkLength(truncate_minutes, wav_files[wav].rate) # 0
    /\ wav_data' = PeakNormalization(wav_files[wav].size)
    /\ chunk_length' = ChunkLength(truncate_minutes, wav_files[wav].rate)
    /\ total_chunks' = TotalChunks(wav_data'.size, chunk_length')
    /\ data_se' = <<>>
    /\ i' = 1
    /\ pc' = "for_chunk"
    /\ UNCHANGED <<inputs, wav, reported, out_files, fs, tmp_dir, chunkVars,
                   procs, p, pending, failure, trace, logs>>

\* line 84 with chunk_length = 0: ZeroDivisionError leaves main_denoising
BeginFileZeroDivision ==
    /\ pc = "for_wav" /\ wav <= Len(wav_files)
    /\ wav_files[wav].rate = SR
    /\ ChunkLength(truncate_minutes, wav_files[wav].rate) = 0
    /\ wav_data' = PeakNormalization(wav_files[wav].size)
    /\ chunk_length' = 0
    /\ failure' = [kind |-> "zero_division", file |-> wav]
    /\ pc' = "aborted"
    /\ UNCHANGED <<inputs, wav, reported, out_files, total_chunks, data_se, i,
                   fs, tmp_dir, chunkVars, procs, p, pending, trace, logs>>

\* line 70: the list is exhausted
BatchDone ==
    /\ pc = "for_wav" /\ wav > Len(wav_files)
    /\ pc' = "done"
    /\ UNCHANGED <<inputs, wav, reported, out_files, fileVars, data_se, i, fs,
                   tmp_dir, chunkVars, procs, p, pending, failure, trace, logs>>

\* line 87: tmp_dir = tempfile.mkdtemp()
MkDtemp ==
    /\ pc = "for_chunk" /\ i <= total_chunks
    /\ tmp_dir' = Len(dirLog) + 1
    /\ fs' = [d \in DOMAIN fs \cup {tmp_dir'} |->
                IF d \in DOMAIN fs THEN fs[d] ELSE EmptyDir]
    /\ dirLog' = Append(dirLog, <<wav, i>>)
    /\ trace' = <<>>
    /\ pending' = "none"
    /\ pc' = "try"
    /\ UNCHANGED <<inputs, wav, reported, out_files, fileVars, data_se, i,
                   chunkVars, procs, p, failure, workerLog>>

ThisChunk ==
    LET bi == ChunkBegin(i, chunk_length)
        ei == ChunkEnd(bi, chunk_length)
    IN Slice(wav_data.size, bi, ei)

\* lines 90-99: short chunk: append it unmodified and continue
ShortChunk ==
    /\ pc = "try"
    /\ IsTooShort(ThisChunk.len)
    /\ temp' = ThisChunk
    /\ data_se' = Append(data_se, [kind |-> "orig", bi |-> temp'.bi,
                                   len |-> temp'.len])
    /\ pending' = "continue"
    /\ pc' = "finally"
    /\ UNCHANGED <<inputs, wav, reported, out_files, fileVars, i, fs, tmp_dir,
                   noisy_htkdata, irm, masked_lps, procs, p, failure, trace,
                   logs>>

\* lines 90-113: slice, extract the LPS features
ExtractFeatures ==
    /\ pc = "try"
    /\ ~IsTooShort(ThisChunk.len)
    /\ temp' = ThisChunk
    /\ noisy_htkdata' = Wav2LogSpec(temp'.len)
    /\ pc' = "write_htk"
    /\ UNCHANGED <<inputs, wav, reported, out_files, fileVars, data_se, i, fs,
                   tmp_dir, irm, masked_lps, procs, p, pending, failure, trace,
                   logs>>

Raise(kind) ==
    /\ pending' = "raise"
    /\ failure' = [kind |-> kind, file |-> wav]
    /\ pc' = "finally"

\* lines 117-119: utils.write_htk
WriteHtk ==
    /\ pc = "write_htk"
    /\ fs' = [fs EXCEPT ![tmp_dir].htk = TRUE]
    /\ trace' = Append(trace, "write_htk")
    /\ pc' = "write_scp"
    /\ UNCHANGED <<inputs, wav, reported, out_files, fileVars, data_se, i,
                   tmp_dir, chunkVars, procs, p, pending, failure, logs>>

\* lines 117-119: the write raises
WriteHtkFails ==
    /\ pc = "write_htk"
    /\ Raise("feature_write")
    /\ UNCHANGED <<inputs, wav, reported, out_files, fileVars, data_se, i, fs,
                   tmp_dir, chunkVars, procs, p, trace, logs>>

\* lines 120-122: the script file
WriteScp ==
    /\ pc = "write_scp"
    /\ fs' = [fs EXCEPT ![tmp_dir].scp = TRUE]
    /\ trace' = Append(trace, "write_scp")
    /\ pc' = "start"
    /\ UNCHANGED <<inputs, wav, reported, out_files, fileVars, data_se, i,
                   tmp_dir, chunkVars, procs, p, pending, failure, logs>>

\* lines 128-132: p = Process(...); p.start()
\* faulty variant: the worker is started before the script file is written
StartWorkerEarly ==
    /\ pc = "write_scp"
    /\ p' = Len(workerLog) + 1
    /\ procs' = procs \cup {[id |-> p', dir |-> tmp_dir]}
    /\ workerLog' = Append(workerLog, <<wav, i>>)
    /\ trace' = Append(trace, "start")
    /\ pc' = "join"
    /\ UNCHANGED <<inputs, wav, reported, out_files, fileVars, data_se, i, fs,
                   tmp_dir, chunkVars, pending, failure, dirLog>>

StartWorker ==
    /\ pc = "start"
    /\ p' = Len(workerLog) + 1
    /\ procs' = procs \cup {[id |-> p', dir |-> tmp_dir]}
    /\ workerLog' = Append(workerLog, <<wav, i>>)
    /\ trace' = Append(trace, "start")
    /\ pc' = "join"
    /\ UNCHANGED <<inputs, wav, reported, out_files, fileVars, data_se, i, fs,
                   tmp_dir, chunkVars, pending, failure, dirLog>>

\* the shapes and values a predictor may leave in irm.mat for a feature
\* matrix of the given number of frames
MaskRows(frames) == {frames, 1, frames + 1}
MaskCols == {NFREQS, 1, NFREQS - 1}
MaskVals == {"pos", "zero", "neg", "malformed"}

\* decode_model: the worker writes irm.mat into the directory it was given
WorkerWriteIrm ==
    /\ \E w \in procs :
         /\ w.dir \in DOMAIN fs
         /\ fs[w.dir].irm = NoMatrix
         /\ \E r \in MaskRows(noisy_htkdata.rows), c \in MaskCols,
               v \in MaskVals :
               fs' = [fs EXCEPT ![w.dir].irm =
                         [rows |-> r, cols |-> c, val |-> v]]
    /\ UNCHANGED <<inputs, pc, wav, reported, out_files, fileVars, data_se, i,
                   tmp_dir, chunkVars, procs, p, pending, failure, trace, logs>>

\* decode_model: the worker terminates (normally or by a crash)
WorkerExit ==
    /\ \E w \in procs : procs' = procs \ {w}
    /\ UNCHANGED <<inputs, pc, wav, reported, out_files, fileVars, data_se, i,
                   fs, tmp_dir, chunkVars, p, pending, failure, trace, logs>>

Alive(id) == \E w \in procs : w.id = id

\* line 133: p.join() returns once the worker has terminated
\* faulty variant: the join does not wait for the worker
JoinNoWait ==
    /\ pc = "join"
    /\ trace' = Append(trace, "join")
    /\ pc' = "loadmat"
    /\ UNCHANGED <<inputs, wav, reported, out_files, fileVars, data_se, i, fs,
                   tmp_dir, chunkVars, procs, p, pending, failure, logs>>

Join ==
    /\ pc = "join"
    /\ ~Alive(p)
    /\ trace' = Append(trace, "join")
    /\ pc' = "loadmat"
    /\ UNCHANGED <<inputs, wav, reported, out_files, fileVars, data_se, i, fs,
                   tmp_dir, chunkVars, procs, p, pending, failure, logs>>

\* line 136: irm = sio.loadmat(irm_fn)['IRM']
LoadMat ==
    /\ pc = "loadmat"
    /\ fs[tmp_dir].irm.val \notin {"none", "malformed"}
    /\ irm' = fs[tmp_dir].irm
    /\ trace' = Append(trace, "loadmat")
    /\ pc' = "mask"
    /\ UNCHANGED <<inputs, wav, reported, out_files, fileVars, data_se, i, fs,
                   tmp_dir, temp, noisy_htkdata, masked_lps, procs, p, pending,
                   failure, logs>>

\* line 136: irm.mat is missing or cannot be parsed
LoadMatFails ==
    /\ pc = "loadmat"
    /\ fs[tmp_dir].irm.val \in {"none", "malformed"}
    /\ Raise(IF fs[tmp_dir].irm.val = "none" THEN "mask_missing"
             ELSE "mask_malformed")
    /\ UNCHANGED <<inputs, wav, reported, out_files, fileVars, data_se, i, fs,
                   tmp_dir, chunkVars, procs, p, trace, logs>>

\* line 137: masked_lps = noisy_htkdata + np.log(irm)
Mask ==
    /\ pc = "mask"
    /\ Broadcastable(noisy_htkdata, irm)
    /\ masked_lps' = MaskedLps(noisy_htkdata, irm)
    /\ trace' = Append(trace, "mask")
    /\ pc' = "reconstruct"
    /\ UNCHANGED <<inputs, wav, reported, out_files, fileVars, data_se, i, fs,
                   tmp_dir, temp, noisy_htkdata, irm, procs, p, pending,
                   failure, logs>>

\* line 137: the operands cannot be broadcast together
MaskFails ==
    /\ pc = "mask"
    /\ ~Broadcastable(noisy_htkdata, irm)
    /\ Raise("mask_shape")
    /\ UNCHANGED <<inputs, wav, reported, out_files, fileVars, data_se, i, fs,
                   tmp_dir, chunkVars, procs, p, trace, logs>>

SameShape(a, b) == a.rows = b.rows /\ a.cols = b.cols

\* lines 140-143: utils.logspec2wav returns a waveform of the chunk's length
Reconstruct ==
    /\ pc = "reconstruct"
    /\ data_se' = Append(data_se, [kind |-> "recon", bi |-> temp.bi,
                                   len |-> temp.len])
    /\ trace' = Append(trace, "reconstruct")
    /\ pending' = "none"
    /\ pc' = "finally"
    /\ UNCHANGED <<inputs, wav, reported, out_files, fileVars, i, fs, tmp_dir,
                   chunkVars, procs, p, failure, logs>>

\* lines 140-142: features of another shape than the chunk's spectra may
\* make the synthesis raise
ReconstructFails ==
    /\ pc = "reconstruct"
    /\ ~SameShape(masked_lps, noisy_htkdata)
    /\ Raise("reconstruct")
    /\ UNCHANGED <<inputs, wav, reported, out_files, fileVars, data_se, i, fs,
                   tmp_dir, chunkVars, procs, p, trace, logs>>

\* shutil.rmtree(tmp_dir)
RmTree(dirs, d) == [e \in DOMAIN dirs \ {d} |-> dirs[e]]

\* lines 144-145: the finally clause, then continue, fall through or re-raise
\* faulty variant: rmtree at the end of the try body, not in a finally
FinallyOnSuccessOnly ==
    /\ pc = "finally"
    /\ fs' = IF pending = "none" THEN RmTree(fs, tmp_dir) ELSE fs
    /\ IF pending = "raise"
         THEN pc' = "aborted" /\ i' = i
         ELSE pc' = "for_chunk" /\ i' = i + 1
    /\ temp' = NoTemp
    /\ noisy_htkdata' = NoMatrix
    /\ irm' = NoMatrix
    /\ masked_lps' = NoMatrix
    /\ UNCHANGED <<inputs, wav, reported, out_files, fileVars, data_se,
                   tmp_dir, procs, p, pending, failure, trace, logs>>

Finally ==
    /\ pc = "finally"
    /\ fs' = RmTree(fs, tmp_dir)
    /\ IF pending = "raise"
         THEN pc' = "aborted" /\ i' = i
         ELSE pc' = "for_chunk" /\ i' = i + 1
    /\ temp' = NoTemp
    /\ noisy_htkdata' = NoMatrix
    /\ irm' = NoMatrix
    /\ masked_lps' = NoMatrix
    /\ UNCHANGED <<inputs, wav, reported, out_files, fileVars, data_se,
                   tmp_dir, procs, p, pending, failure, trace, logs>>

\* lines 146-150: concatenate and write the output
WriteOutput ==
    /\ pc = "for_chunk" /\ i > total_chunks
    /\ data_se # <<>>
    /\ out_files' = [out_files EXCEPT
                       ![wav] = [written |-> TRUE, data |-> Concatenate(data_se)]]
    /\ wav' = wav + 1
    /\ pc' = "for_wav"
    /\ UNCHANGED <<inputs, reported, fileVars, data_se, i, fs, tmp_dir,
                   chunkVars, procs, p, pending, failure, trace, logs>>

\* line 146: np.concatenate of an empty list raises ValueError
ConcatenateFails ==
    /\ pc = "for_chunk" /\ i > total_chunks
    /\ data_se = <<>>
    /\ failure' = [kind |-> "empty_concatenate", file |-> wav]
    /\ pc' = "aborted"
    /\ UNCHANGED <<inputs, wav, reported, out_files, fileVars, data_se, i, fs,
                   tmp_dir, chunkVars, procs, p, pending, trace, logs>>

Next ==
    \/ SkipFile \/ BeginFile \/ BeginFileZeroDivision \/ BatchDone
    \/ MkDtemp \/ ShortChunk \/ ExtractFeatures
    \/ WriteHtk \/ WriteHtkFails \/ WriteScp \/ StartWorker
    \/ WorkerWriteIrm \/ WorkerExit \/ Join
    \/ LoadMat \/ LoadMatFails \/ Mask \/ MaskFails
    \/ Reconstruct \/ ReconstructFails \/ Finally
    \/ WriteOutput \/ ConcatenateFails

Spec == Init /\ [][Next]_vars

\* ----------------------------------------------------------- properties
BetweenIterations == pc \in {"for_wav", "for_chunk", "done", "aborted"}

InChunk == ~BetweenIterations

Written(k) == out_files[k].written

Out(k) == out_files[k].data

PredictorFailures == {"mask_missing", "mask_malformed", "mask_shape"}

StepOrder == <<"write_htk", "write_scp", "start", "join", "loadmat", "mask",
               "reconstruct">>

IsPrefix(s, t) == Len(s) <= Len(t) /\ SubSeq(t, 1, Len(s)) = s

\* C1: outside a chunk iteration (before it, after its normal end, after the
\* short-chunk continue, after a failure has left it) no scratch directory
\* exists; inside an iteration only the iteration's own directory exists.
C1_ScratchRemoved ==
    /\ BetweenIterations => DOMAIN fs = {}
    /\ InChunk => DOMAIN fs = {tmp_dir}

C1_Witness ==
    /\ pc = "aborted"
    /\ failure.kind \in PredictorFailures \cup {"feature_write", "reconstruct"}
    /\ Len(dirLog) >= 2
    /\ \E k \in DOMAIN out_files : \E j \in DOMAIN out_files[k].data :
          out_files[k].data[j].kind = "orig"
    /\ DOMAIN fs = {}

\* C2: every output written has exactly as many samples as the normalized
\* input waveform of its file.
C2_LengthPreserved ==
    \A k \in DOMAIN out_files :
        Written(k) => SumLen(Out(k)) = wav_files[k].size

C2_Witness ==
    \E k \in DOMAIN out_files :
        /\ Written(k)
        /\ Len(Out(k)) = 3
        /\ wav_files[k].size = 513
        /\ \E j \in 1..3 : Out(k)[j].kind = "orig"

\* C3 as stated: chunk_length is exactly truncate_minutes * rate * 60 and the
\* number of chunks is the ceiling of N over that product.
C3_ChunkLengthIsExactProduct ==
    chunk_length > 0 =>
        LET prod == truncate_minutes.num * SR * 60
            den == truncate_minutes.den
            N == wav_data.size
        IN /\ chunk_length * den = prod
           /\ IF N = 0 THEN total_chunks = 0
              ELSE /\ (total_chunks - 1) * prod < N * den
                   /\ N * den <= total_chunks * prod

\* C3 amended: chunk_length is the product truncated to an integer; when it
\* is at least 1 the N samples are split into ceil(N / chunk_length) chunks,
\* chunk j starting at (j-1)*chunk_length, all of chunk_length samples except
\* possibly the last, taken in increasing order, and the chunks of a written
\* file cover its samples exactly once.
C3_Chunking ==
    /\ chunk_length > 0 =>
        LET prod == truncate_minutes.num * SR * 60
            den == truncate_minutes.den
            N == wav_data.size
            cl == chunk_length
        IN /\ cl * den <= prod /\ prod < (cl + 1) * den
           /\ IF N = 0 THEN total_chunks = 0
              ELSE (total_chunks - 1) * cl < N /\ N <= total_chunks * cl
           /\ Len(data_se) <= total_chunks
           /\ Len(data_se) \in {i - 1, i}
           /\ \A j \in DOMAIN data_se :
                /\ data_se[j].bi = (j - 1) * cl
                /\ data_se[j].len =
                      IF j < total_chunks THEN cl ELSE N - (j - 1) * cl
                /\ data_se[j].len >= 1
    /\ \A k \in DOMAIN out_files : Written(k) =>
          LET o == Out(k)
          IN /\ o[1].src = 0
             /\ \A j \in DOMAIN o : o[j].out = o[j].src
             /\ \A j \in 1..(Len(o) - 1) : o[j].src + o[j].len = o[j + 1].src
             /\ o[Len(o)].src + o[Len(o)].len = wav_files[k].size

C3_Witness ==
    /\ truncate_minutes = [num |-> 513, den |-> 1920000]
    /\ \E k \in DOMAIN out_files :
          /\ Written(k)
          /\ wav_files[k].size = 513
          /\ Len(Out(k)) = 3

\* C4: a file whose rate is not SR is reported and passed over: it gets no
\* output, no scratch directory, no worker and is never the file a failure
\* is raised for; the files at rate SR that the loop has passed, before or
\* after it, are written, and the loop ends only when the list is exhausted.
C4_WrongRateSkipped ==
    /\ \A k \in DOMAIN wav_files : wav_files[k].rate # SR =>
          /\ ~Written(k)
          /\ k < wav => k \in reported
          /\ \A j \in DOMAIN dirLog : dirLog[j][1] # k
          /\ \A j \in DOMAIN workerLog : workerLog[j][1] # k
          /\ failure.file # k
    /\ \A k \in DOMAIN wav_files :
          (k < wav /\ wav_files[k].rate = SR) => Written(k)
    /\ \A k \in reported : wav_files[k].rate # SR
    /\ pc = "done" => wav = Len(wav_files) + 1

C4_Witness ==
    /\ pc = "done"
    /\ \E k, j \in DOMAIN wav_files :
          /\ k < j
          /\ k \in reported
          /\ wav_files[k].rate = 8000
          /\ Written(j)

\* C5 as stated: a predictor failure leaves the failed file without output
\* and does not abort the batch.
C5_PredictorFailureKeepsBatch ==
    failure.kind \in PredictorFailures =>
        /\ ~Written(failure.file)
        /\ pc # "aborted"

\* C6: a chunk is passed through exactly when it has fewer than WL2 = 256
\* samples; a passed-through chunk wrote no record, started no worker and
\* read no mask, and lies in the output at its own position; a chunk of 256
\* samples or more is appended only after all seven steps of enhancement.
C6_ShortChunkPassthrough ==
    /\ WL2 = 256
    /\ \A j \in DOMAIN data_se :
          data_se[j].kind = "orig" <=> data_se[j].len < 256
    /\ \A k \in DOMAIN out_files : Written(k) =>
          \A j \in DOMAIN Out(k) :
             LET piece == Out(k)[j]
             IN /\ piece.kind = "orig" <=> piece.len < 256
                /\ piece.kind = "orig" => piece.out = piece.src
    /\ (pc = "finally" /\ pending = "continue") =>
          /\ trace = <<>>
          /\ fs[tmp_dir] = EmptyDir
          /\ \A j \in DOMAIN workerLog : workerLog[j] # <<wav, i>>
          /\ irm = NoMatrix /\ masked_lps = NoMatrix
          /\ data_se[Len(data_se)].kind = "orig"
    /\ (pc = "finally" /\ pending = "none") =>
          /\ trace = StepOrder
          /\ data_se[Len(data_se)].kind = "recon"

C6_Witness ==
    \E k \in DOMAIN out_files :
        /\ Written(k)
        /\ \E j \in DOMAIN Out(k) :
              /\ Out(k)[j].kind = "orig"
              /\ Out(k)[j].out = 512
        /\ \E j \in DOMAIN Out(k) :
              /\ Out(k)[j].kind = "recon"
              /\ Out(k)[j].len = 256

\* C7 as stated: a mask is used for reconstruction only if its shape is
\* exactly the shape of the chunk's feature matrix.
C7_MaskShapeExact ==
    pc = "reconstruct" => SameShape(irm, noisy_htkdata)

\* C8: the steps of an enhanced chunk happen in the order write features,
\* write index, start worker, join worker, read mask, mask, reconstruct; a
\* worker is alive only while both records are in its directory, and the
\* mask is read, applied and used only after the worker has terminated.
C8_StepOrder ==
    /\ IsPrefix(trace, StepOrder)
    /\ \A w \in procs :
          /\ w.dir \in DOMAIN fs
          /\ fs[w.dir].htk /\ fs[w.dir].scp
    /\ pc \in {"loadmat", "mask", "reconstruct"} => ~Alive(p)
    /\ irm # NoMatrix => ~Alive(p)
    /\ \A d \in DOMAIN fs : fs[d].irm # NoMatrix => (fs[d].htk /\ fs[d].scp)

C8_Witness ==
    /\ pc = "finally"
    /\ trace = StepOrder
    /\ irm # NoMatrix

\* C9 as stated: the masked features never hold -infinity or an undefined
\* value, whatever the mask values.
C9_MaskClamped ==
    pc = "reconstruct" => masked_lps.val = "finite"

\* C10: at most one worker is alive and at most one scratch directory
\* exists; between iterations there is neither; every enhanced chunk has
\* exactly one worker of its own and a passed-through chunk has none; a file
\* is begun only when every file before it is written or skipped.
C10_Sequential ==
    /\ Cardinality(procs) <= 1
    /\ Cardinality(DOMAIN fs) <= 1
    /\ BetweenIterations => procs = {} /\ DOMAIN fs = {}
    /\ \A a, b \in DOMAIN workerLog : workerLog[a] = workerLog[b] => a = b
    /\ \A w \in procs : w.id = p /\ w.id = Len(workerLog) /\ w.dir = tmp_dir
    /\ pc \notin {"for_wav", "done"} =>
          \A j \in DOMAIN data_se :
             data_se[j].kind = "recon" <=>
                \E a \in DOMAIN workerLog : workerLog[a] = <<wav, j>>
    /\ \A a \in DOMAIN workerLog : \E b \in DOMAIN dirLog :
          dirLog[b] = workerLog[a]
    /\ \A a, b \in DOMAIN dirLog : dirLog[a] = dirLog[b] => a = b
    /\ pc \notin {"done"} =>
          \A k \in DOMAIN wav_files :
             k < wav => (Written(k) \/ k \in reported)

C10_Witness ==
    /\ Len(workerLog) >= 2
    /\ Cardinality(procs) = 1
    /\ workerLog[Len(workerLog)][2] = 2

====
